---- MODULE Spec2Model ----
(***************************************************************************)
(* Model of the Conversant adapter (adapters/conversant/conversant.go):    *)
(* the FlexBool JSON decoder and ConversantAdapter.Call, i.e. the merge of *)
(* the per-placement parameters into the OpenRTB request, the transmission *)
(* and the reconciliation of the response bids with the impression map.    *)
(***************************************************************************)
EXTENDS Integers, Sequences, FiniteSets, TLC

\* ---------------------------------------------------------------- bounds
\* Longest bidder.AdUnits list, longest cnvrReq.Imp list, largest number of
\* bids in a response, and largest magnitude of a JSON integer literal.
MaxUnits == 2
MaxImps == 2
MaxBids == 2
MaxNum == 129

\* Largest value of Go's int8 (nval is declared int8(0)).
Int8Max == 127

\* ------------------------------------------------------ pointers (nil or a value)
NilInt == [set |-> FALSE, v |-> 0]
IntPtr(x) == [set |-> TRUE, v |-> x]
NilFlag == [set |-> FALSE, v |-> FALSE]
FlagPtr(b) == [set |-> TRUE, v |-> b]

\* ------------------------------------------------------------ JSON scalars
\* A JSON value as the decoder sees it: the literals true, false, null, an
\* integer literal n, a number with a fraction, a string, an object.
JTrue == [kind |-> "true", n |-> 0]
JFalse == [kind |-> "false", n |-> 0]
JNull == [kind |-> "null", n |-> 0]
JInt(k) == [kind |-> "int", n |-> k]
JFrac == [kind |-> "frac", n |-> 0]
JString == [kind |-> "string", n |-> 0]
JObject == [kind |-> "object", n |-> 0]
JSONValues == {JTrue, JFalse, JNull, JFrac, JString, JObject} \cup {JInt(k) : k \in (0 - MaxNum)..MaxNum}

\* json.Unmarshal(data, &bval): a boolean literal is stored; null is accepted
\* and leaves bval as it is; anything else is an UnmarshalTypeError.
UnmarshalBool(data, bval) ==
  IF data.kind \in {"true", "false"} THEN [err |-> FALSE, val |-> (data.kind = "true")]
  ELSE IF data.kind = "null" THEN [err |-> FALSE, val |-> bval]
  ELSE [err |-> TRUE, val |-> bval]

\* json.Unmarshal(data, &nval) with nval an int8: an integer literal within
\* -128..127 is stored; null is accepted and leaves nval; anything else fails.
UnmarshalInt8(data, nval) ==
  IF data.kind = "int" /\ data.n >= 0 - Int8Max - 1 /\ data.n <= Int8Max
    THEN [err |-> FALSE, val |-> data.n]
  ELSE IF data.kind = "null" THEN [err |-> FALSE, val |-> nval]
  ELSE [err |-> TRUE, val |-> nval]

\* FlexBool.UnmarshalJSON: the flag after the call and whether err is non-nil.
FlexBoolUnmarshalJSON(flag, data) ==
  LET b == UnmarshalBool(data, FALSE)
      nv == UnmarshalInt8(data, 0)
  IN IF ~b.err THEN [flag |-> b.val, err |-> FALSE]
     ELSE IF ~nv.err THEN [flag |-> (nv.val # 0), err |-> FALSE]
     ELSE [flag |-> flag, err |-> TRUE]

\* FlexBool.ToInt8
ToInt8(flag) == IF flag THEN 1 ELSE 0

\* ------------------------------------------------------------ the request
\* Identifiers of impressions / codes of ad units, and the bid identifier
\* the host attaches to the ad unit of the same position.
ImpIDs == <<"a", "b", "c", "d">>
BidIDs == <<"bid-a", "bid-b", "bid-c", "bid-d">>
UnknownID == "zz"
KnownIDs == {ImpIDs[j] : j \in 1..MaxImps}

NoBanner == [set |-> FALSE, pos |-> NilInt]
NoVideo == [set |-> FALSE, pos |-> NilInt, api |-> <<>>, protocols |-> <<>>, mimes |-> <<>>,
            maxduration |-> 0, w |-> 0, h |-> 0]

\* An impression as adapters.MakeOpenRTBGeneric builds it: exactly one of the
\* banner and video sub-objects, a secure flag and a position hint.
BaseImp(id, isVideo, secure, pos) ==
  [id |-> id, displaymanager |-> "", bidfloor |-> 0, tagid |-> "", secure |-> secure,
   banner |-> IF isVideo THEN NoBanner ELSE [set |-> TRUE, pos |-> pos],
   video |-> IF isVideo
               THEN [set |-> TRUE, pos |-> pos, api |-> <<>>, protocols |-> <<2>>,
                     mimes |-> <<"video/mp4">>, maxduration |-> 15, w |-> 640, h |-> 480]
               ELSE NoVideo]

SecureValues == {NilInt, IntPtr(0), IntPtr(1)}
PosValues == {NilInt, IntPtr(1)}

\* The impressions a request can carry at position j.  A rich request varies
\* the media type, secure flag and position of its first impression and
\* alternates the media type of the others; a plain one varies the media
\* type of every impression.
ImpVariants(j, rich) ==
  IF rich
    THEN IF j = 1
           THEN {BaseImp(ImpIDs[j], v, s, p) : v \in BOOLEAN, s \in SecureValues, p \in PosValues}
           ELSE {BaseImp(ImpIDs[j], j % 2 = 0, NilInt, NilInt)}
    ELSE {BaseImp(ImpIDs[j], v, NilInt, NilInt) : v \in BOOLEAN}

ImpLists(rich) ==
  UNION {{imps \in [1..n -> UNION {ImpVariants(j, rich) : j \in 1..n}] :
            \A j \in 1..n : imps[j] \in ImpVariants(j, rich)} : n \in 1..MaxImps}

\* The requests MakeOpenRTBGeneric returns without an error.
MakeOpenRTBGeneric(rich) ==
  {[site |-> [id |-> s, mobile |-> 0], imp |-> imps] : s \in {"", "site0"}, imps \in ImpLists(rich)}
PlainRequests == MakeOpenRTBGeneric(FALSE)
RichRequests == MakeOpenRTBGeneric(TRUE)

\* impMap, lines 99-102: the index of the impression each ID maps to (the
\* last one of that ID).
ImpMap(r) ==
  [id \in {r.imp[j].id : j \in 1..Len(r.imp)} |->
     CHOOSE j \in 1..Len(r.imp) : r.imp[j].id = id /\ \A l \in (j + 1)..Len(r.imp) : r.imp[l].id # id]

\* ------------------------------------------------- placement parameters
Absent == [present |-> FALSE, j |-> JNull]
Raw(j) == [present |-> TRUE, j |-> j]

\* A parameter blob (unit.Params): ok is whether it is a well-formed JSON
\* object; secure, mobile and position hold the raw JSON of their keys.
DefaultBlob ==
  [ok |-> TRUE, site_id |-> "", secure |-> Absent, tag_id |-> "", position |-> Absent,
   bidfloor |-> 0, mobile |-> Absent, mimes |-> <<>>, api |-> <<>>, protocols |-> <<>>,
   maxduration |-> NilInt]

\* The zero conversantParams.
ZeroParams ==
  [SiteID |-> "", Secure |-> NilFlag, TagID |-> "", Position |-> NilInt, BidFloor |-> 0,
   Mobile |-> NilFlag, MIMEs |-> <<>>, API |-> <<>>, Protocols |-> <<>>, MaxDuration |-> NilInt]

\* Decoding of a *FlexBool field: an absent key or null leaves the pointer
\* nil; otherwise a fresh FlexBool is allocated and UnmarshalJSON is called.
DecodeFlexPtr(raw) ==
  IF ~raw.present \/ raw.j.kind = "null" THEN [err |-> FALSE, val |-> NilFlag]
  ELSE LET d == FlexBoolUnmarshalJSON(FALSE, raw.j)
       IN [err |-> d.err, val |-> IF d.err THEN NilFlag ELSE FlagPtr(d.flag)]

\* Decoding of a *int8 field.
DecodeInt8Ptr(raw) ==
  IF ~raw.present \/ raw.j.kind = "null" THEN [err |-> FALSE, val |-> NilInt]
  ELSE LET d == UnmarshalInt8(raw.j, 0)
       IN [err |-> d.err, val |-> IF d.err THEN NilInt ELSE IntPtr(d.val)]

\* json.Unmarshal(unit.Params, &params), line 115.
DecodeParams(blob) ==
  LET s == DecodeFlexPtr(blob.secure)
      m == DecodeFlexPtr(blob.mobile)
      p == DecodeInt8Ptr(blob.position)
  IN IF ~blob.ok \/ s.err \/ m.err \/ p.err
       THEN [err |-> TRUE, params |-> ZeroParams]
       ELSE [err |-> FALSE,
             params |-> [SiteID |-> blob.site_id, Secure |-> s.val, TagID |-> blob.tag_id,
                         Position |-> p.val, BidFloor |-> blob.bidfloor, Mobile |-> m.val,
                         MIMEs |-> blob.mimes, API |-> blob.api, Protocols |-> blob.protocols,
                         MaxDuration |-> blob.maxduration]]

\* MergeUnit, were the secure flag written whenever the parameters supply one.
MergeUnit_SecureOverridden(r, code, params) ==
  LET m == ImpMap(r)[code]
      imp == r.imp[m]
      position == IF params.Position.set THEN IntPtr(params.Position.v) ELSE NilInt
      banner == IF imp.banner.set THEN [imp.banner EXCEPT !.pos = position] ELSE imp.banner
      video ==
        IF ~imp.banner.set /\ imp.video.set
          THEN [imp.video EXCEPT
                  !.pos = position,
                  !.api = IF Len(params.API) > 0 THEN params.API ELSE @,
                  !.protocols = IF Len(params.Protocols) > 0 THEN params.Protocols ELSE @,
                  !.mimes = IF Len(params.MIMEs) > 0 THEN params.MIMEs ELSE @,
                  !.maxduration = IF params.MaxDuration.set THEN params.MaxDuration.v ELSE @]
          ELSE imp.video
      secure == IF params.Secure.set THEN IntPtr(ToInt8(params.Secure.v)) ELSE imp.secure
      merged == [imp EXCEPT !.displaymanager = "prebid-s2s", !.bidfloor = params.BidFloor,
                            !.tagid = params.TagID, !.banner = banner, !.video = video,
                            !.secure = secure]
  IN [site |-> [id |-> IF params.SiteID # "" THEN params.SiteID ELSE r.site.id,
                mobile |-> IF params.Mobile.set THEN ToInt8(params.Mobile.v) ELSE r.site.mobile],
      imp |-> [r.imp EXCEPT ![m] = merged]]

\* MergeUnit, were the API frameworks of the parameters appended to the
\* list of the impression instead of replacing it.
MergeUnit_APIAppended(r, code, params) ==
  LET m == ImpMap(r)[code]
      imp == r.imp[m]
      position == IF params.Position.set THEN IntPtr(params.Position.v) ELSE NilInt
      banner == IF imp.banner.set THEN [imp.banner EXCEPT !.pos = position] ELSE imp.banner
      video ==
        IF ~imp.banner.set /\ imp.video.set
          THEN [imp.video EXCEPT
                  !.pos = position,
                  !.api = @ \o params.API,
                  !.protocols = IF Len(params.Protocols) > 0 THEN params.Protocols ELSE @,
                  !.mimes = IF Len(params.MIMEs) > 0 THEN params.MIMEs ELSE @,
                  !.maxduration = IF params.MaxDuration.set THEN params.MaxDuration.v ELSE @]
          ELSE imp.video
      secure ==
        IF (~imp.secure.set \/ imp.secure.v = 0) /\ params.Secure.set
          THEN IntPtr(ToInt8(params.Secure.v))
          ELSE imp.secure
      merged == [imp EXCEPT !.displaymanager = "prebid-s2s", !.bidfloor = params.BidFloor,
                            !.tagid = params.TagID, !.banner = banner, !.video = video,
                            !.secure = secure]
  IN [site |-> [id |-> IF params.SiteID # "" THEN params.SiteID ELSE r.site.id,
                mobile |-> IF params.Mobile.set THEN ToInt8(params.Mobile.v) ELSE r.site.mobile],
      imp |-> [r.imp EXCEPT ![m] = merged]]

\* Lines 120-178: the body of the merge loop for an ad unit whose code maps
\* to an impression and whose parameters decoded to params.
MergeUnit(r, code, params) ==
  LET m == ImpMap(r)[code]
      imp == r.imp[m]
      position == IF params.Position.set THEN IntPtr(params.Position.v) ELSE NilInt
      banner == IF imp.banner.set THEN [imp.banner EXCEPT !.pos = position] ELSE imp.banner
      video ==
        IF ~imp.banner.set /\ imp.video.set
          THEN [imp.video EXCEPT
                  !.pos = position,
                  !.api = IF Len(params.API) > 0 THEN params.API ELSE @,
                  !.protocols = IF Len(params.Protocols) > 0 THEN params.Protocols ELSE @,
                  !.mimes = IF Len(params.MIMEs) > 0 THEN params.MIMEs ELSE @,
                  !.maxduration = IF params.MaxDuration.set THEN params.MaxDuration.v ELSE @]
          ELSE imp.video
      secure ==
        IF (~imp.secure.set \/ imp.secure.v = 0) /\ params.Secure.set
          THEN IntPtr(ToInt8(params.Secure.v))
          ELSE imp.secure
      merged == [imp EXCEPT !.displaymanager = "prebid-s2s", !.bidfloor = params.BidFloor,
                            !.tagid = params.TagID, !.banner = banner, !.video = video,
                            !.secure = secure]
  IN [site |-> [id |-> IF params.SiteID # "" THEN params.SiteID ELSE r.site.id,
                mobile |-> IF params.Mobile.set THEN ToInt8(params.Mobile.v) ELSE r.site.mobile],
      imp |-> [r.imp EXCEPT ![m] = merged]]

\* ------------------------------------------------------ inputs of a call
\* The raw JSON a blob may give for a flexible boolean, and the blobs an ad
\* unit may carry: malformed JSON, the empty object, and objects that set
\* one key or all keys.
FlexTokens == {JTrue, JFalse, JInt(1), JInt(0), JNull, JString}

FullBlob ==
  [ok |-> TRUE, site_id |-> "site1", secure |-> Raw(JFalse), tag_id |-> "tag1",
   position |-> Raw(JInt(3)), bidfloor |-> 2, mobile |-> Raw(JInt(1)), mimes |-> <<"video/webm">>,
   api |-> <<1, 2>>, protocols |-> <<3>>, maxduration |-> IntPtr(30)]

ParamBlobs ==
  {DefaultBlob, FullBlob, [DefaultBlob EXCEPT !.ok = FALSE],
   [DefaultBlob EXCEPT !.site_id = "site2"],
   [DefaultBlob EXCEPT !.tag_id = "tag2", !.bidfloor = 3],
   [DefaultBlob EXCEPT !.position = Raw(JInt(4))],
   [DefaultBlob EXCEPT !.mobile = Raw(JInt(0))],
   [DefaultBlob EXCEPT !.mimes = <<"video/ogg">>, !.protocols = <<6>>],
   [DefaultBlob EXCEPT !.maxduration = IntPtr(60)]}
  \cup {[DefaultBlob EXCEPT !.secure = Raw(j)] : j \in FlexTokens}

CoreBlobs ==
  {DefaultBlob, FullBlob, [DefaultBlob EXCEPT !.ok = FALSE], [DefaultBlob EXCEPT !.secure = Raw(JString)]}

\* An ad unit of bidder.AdUnits: its code and its parameter blob.
AdUnits(blobs) == {[Code |-> c, Params |-> b] : c \in KnownIDs \cup {UnknownID}, b \in blobs}
NoUnit == [Code |-> "", Params |-> DefaultBlob]
CoreUnits == AdUnits(CoreBlobs)
AllUnits == AdUnits(ParamBlobs)

\* A bid of the response (openrtb.Bid); prices are in whole currency units.
Prices == {0, 2}
ResponseBids ==
  {[ImpID |-> c, Price |-> p, CrID |-> "cr1", AdM |-> "adm", NURL |-> "nurl", W |-> 300, H |-> 250] :
     c \in KnownIDs \cup {UnknownID}, p \in Prices}

\* HTTP statuses other than 200 and 204.
ErrorStatuses == {302, 400, 500}

\* ------------------------------------------------------------------ state
VARIABLES
  pc,        \* position in Call: "merge", "await", "reconcile", "done"; "idle" outside a call
  cnvrReq,   \* the OpenRTB request being built
  i,         \* number of ad units the merge loop has passed
  unit,      \* the ad unit of the current iteration of the merge loop
  sent,      \* whether ctxhttp.Do has put the request on the wire
  status,    \* resp.StatusCode, 0 while there is no response
  noBidID,   \* the codes for which bidder.LookupBidID returns ""
  bidResp,   \* the bids of the decoded response, in seat and bid order, as far as the loop has read them
  bids,      \* the bids slice being built
  result,    \* what Call returned: its bid slice and its error
  fdata, fprev, fflag, ferr, fdone,    \* FlexBool.UnmarshalJSON: data, *flag before and after, err, returned
  adUnits, firstPass, passes    \* repeated merge: the ad units, the request after one pass, passes made

callVars == <<pc, cnvrReq, i, unit, sent, status, noBidID, bidResp, bids, result>>
flexVars == <<fdata, fprev, fflag, ferr, fdone>>
passVars == <<adUnits, firstPass, passes>>
vars == <<callVars, flexVars, passVars>>

NoResult == [bids |-> <<>>, err |-> "pending"]

FlexIdle == fdata = JNull /\ fprev = FALSE /\ fflag = FALSE /\ ferr = FALSE /\ fdone = FALSE
PassIdle == adUnits = <<>> /\ firstPass = [site |-> [id |-> "", mobile |-> 0], imp |-> <<>>] /\ passes = 0
CallIdle ==
  /\ pc = "idle" /\ i = 0 /\ unit = NoUnit /\ sent = FALSE /\ status = 0 /\ noBidID = {}
  /\ bidResp = <<>> /\ bids = <<>> /\ result = NoResult

\* Entry of Call, lines 88-102: the generic request is built.
CallStart(requests) ==
  /\ pc = "merge"
  /\ cnvrReq \in requests
  /\ i = 0 /\ unit = NoUnit /\ sent = FALSE /\ status = 0 /\ noBidID = {}
  /\ bidResp = <<>> /\ bids = <<>> /\ result = NoResult

Return(b, e) ==
  /\ pc' = "done"
  /\ result' = [bids |-> b, err |-> e]

\* ------------------------------------------------------- the merge loop
\* MergeSkip, were the site ID of the parameters taken before the lookup of the impression.
MergeSkip_SiteFirst(units) ==
  /\ pc = "merge" /\ i < MaxUnits
  /\ \E u \in units :
       /\ u.Code \notin DOMAIN ImpMap(cnvrReq)
       /\ unit' = u
       /\ cnvrReq' = IF DecodeParams(u.Params).params.SiteID # ""
                       THEN [cnvrReq EXCEPT !.site.id = DecodeParams(u.Params).params.SiteID]
                       ELSE cnvrReq
  /\ i' = i + 1
  /\ UNCHANGED <<pc, sent, status, noBidID, bidResp, bids, result, flexVars, passVars>>

\* Lines 109-113: the unit's code maps to no impression.
MergeSkip(units) ==
  /\ pc = "merge" /\ i < MaxUnits
  /\ \E u \in units :
       /\ u.Code \notin DOMAIN ImpMap(cnvrReq)
       /\ unit' = u
  /\ i' = i + 1
  /\ UNCHANGED <<pc, cnvrReq, sent, status, noBidID, bidResp, bids, result, flexVars, passVars>>

\* MergeDecodeError, were the decode error dropped and the loop continued.
MergeDecodeError_Ignored(units) ==
  /\ pc = "merge" /\ i < MaxUnits
  /\ \E u \in units :
       /\ u.Code \in DOMAIN ImpMap(cnvrReq)
       /\ DecodeParams(u.Params).err
       /\ unit' = u
  /\ i' = i + 1
  /\ UNCHANGED <<pc, cnvrReq, sent, status, noBidID, bidResp, bids, result, flexVars, passVars>>

\* Lines 115-118: the parameters of a matched unit fail to decode.
MergeDecodeError(units) ==
  /\ pc = "merge" /\ i < MaxUnits
  /\ \E u \in units :
       /\ u.Code \in DOMAIN ImpMap(cnvrReq)
       /\ DecodeParams(u.Params).err
       /\ unit' = u
  /\ Return(<<>>, "DecodeError")
  /\ UNCHANGED <<cnvrReq, i, sent, status, noBidID, bidResp, bids, flexVars, passVars>>

\* Lines 115-178: the parameters of a matched unit are merged.
MergeApply(units) ==
  /\ pc = "merge" /\ i < MaxUnits
  /\ \E u \in units :
       /\ u.Code \in DOMAIN ImpMap(cnvrReq)
       /\ ~DecodeParams(u.Params).err
       /\ unit' = u
       /\ cnvrReq' = MergeUnit(cnvrReq, u.Code, DecodeParams(u.Params).params)
  /\ i' = i + 1
  /\ UNCHANGED <<pc, sent, status, noBidID, bidResp, bids, result, flexVars, passVars>>

\* Lines 183-185: the loop is over and the site ID is empty.
MissingSiteId ==
  /\ pc = "merge"
  /\ cnvrReq.site.id = ""
  /\ unit' = NoUnit
  /\ Return(<<>>, "Missing site id")
  /\ UNCHANGED <<cnvrReq, i, sent, status, noBidID, bidResp, bids, flexVars, passVars>>

\* Transmit, were the check of the site ID left out.
Transmit_Unchecked ==
  /\ pc = "merge"
  /\ unit' = NoUnit
  /\ pc' = "await"
  /\ sent' = TRUE
  /\ UNCHANGED <<cnvrReq, i, status, noBidID, bidResp, bids, result, flexVars, passVars>>

\* Lines 187-210: the loop is over, the request is serialized and posted.
Transmit ==
  /\ pc = "merge"
  /\ cnvrReq.site.id # ""
  /\ unit' = NoUnit
  /\ pc' = "await"
  /\ sent' = TRUE
  /\ UNCHANGED <<cnvrReq, i, status, noBidID, bidResp, bids, result, flexVars, passVars>>

\* ------------------------------------------------------- the response
\* Lines 210-213: ctxhttp.Do fails in the transport.
TransportError ==
  /\ pc = "await"
  /\ Return(<<>>, "TransportError")
  /\ UNCHANGED <<cnvrReq, i, unit, sent, status, noBidID, bidResp, bids, flexVars, passVars>>

\* Lines 210-213: the context is cancelled or its deadline passes before the
\* response arrives; ctxhttp.Do returns ctx.Err().
Cancelled ==
  /\ pc = "await"
  /\ Return(<<>>, "Cancelled")
  /\ UNCHANGED <<cnvrReq, i, unit, sent, status, noBidID, bidResp, bids, flexVars, passVars>>

\* Lines 219-221.
Status204 ==
  /\ pc = "await"
  /\ status' = 204
  /\ Return(<<>>, "nil")
  /\ UNCHANGED <<cnvrReq, i, unit, sent, noBidID, bidResp, bids, flexVars, passVars>>

\* Lines 224-228: reading the body of a response that is not a 204 fails.
ReadBodyError ==
  /\ pc = "await"
  /\ \E st \in ErrorStatuses \cup {200} : status' = st
  /\ Return(<<>>, "ReadError")
  /\ UNCHANGED <<cnvrReq, i, unit, sent, noBidID, bidResp, bids, flexVars, passVars>>

\* Lines 230-232.
StatusNot200 ==
  /\ pc = "await"
  /\ \E st \in ErrorStatuses : status' = st
  /\ Return(<<>>, "HTTP status")
  /\ UNCHANGED <<cnvrReq, i, unit, sent, noBidID, bidResp, bids, flexVars, passVars>>

\* Lines 238-243: the body of a 200 is not a bid response.
MalformedBody ==
  /\ pc = "await"
  /\ status' = 200
  /\ Return(<<>>, "ResponseDecodeError")
  /\ UNCHANGED <<cnvrReq, i, unit, sent, noBidID, bidResp, bids, flexVars, passVars>>

\* Lines 238-245: the body of a 200 decodes; bids is made empty.  The ad
\* units the host knows no bid ID for are fixed here, where they first matter.
ResponseDecoded ==
  /\ pc = "await"
  /\ status' = 200
  /\ pc' = "reconcile"
  /\ bids' = <<>>
  /\ bidResp' = <<>>
  /\ \E s \in SUBSET KnownIDs : Cardinality(s) <= 1 /\ noBidID' = s
  /\ UNCHANGED <<cnvrReq, i, unit, sent, result, flexVars, passVars>>

\* bidder.LookupBidID: the bid ID of the ad unit of that code, "" if none.
LookupBidID(code, unresolved) ==
  IF code \in KnownIDs /\ code \notin unresolved
    THEN BidIDs[CHOOSE j \in 1..MaxImps : ImpIDs[j] = code]
    ELSE ""

\* MakePBSBid, were the size of a video record taken from the bid.
MakePBSBid_BidSize(imp, bidID, bid) ==
  [BidID |-> bidID, AdUnitCode |-> bid.ImpID, Price |-> bid.Price, Creative_id |-> bid.CrID,
   BidderCode |-> "conversant",
   CreativeMediaType |-> IF imp.video.set THEN "video" ELSE "banner",
   NURL |-> IF imp.video.set THEN bid.AdM ELSE bid.NURL,
   Adm |-> IF imp.video.set THEN "" ELSE bid.AdM,
   Width |-> bid.W, Height |-> bid.H]

\* Lines 259-283: the bid record of a bid whose impression is imp.
MakePBSBid(imp, bidID, bid) ==
  LET common == [BidID |-> bidID, AdUnitCode |-> bid.ImpID, Price |-> bid.Price,
                 Creative_id |-> bid.CrID, BidderCode |-> "conversant"]
  IN IF imp.video.set
       THEN common @@ [CreativeMediaType |-> "video", NURL |-> bid.AdM, Adm |-> "",
                       Width |-> imp.video.w, Height |-> imp.video.h]
       ELSE common @@ [CreativeMediaType |-> "banner", NURL |-> bid.NURL, Adm |-> bid.AdM,
                       Width |-> bid.W, Height |-> bid.H]

\* Lines 249-251: a bid without a positive price is passed over.
ReconcileSkip ==
  /\ pc = "reconcile" /\ Len(bidResp) < MaxBids
  /\ \E bid \in ResponseBids :
       /\ bid.Price <= 0
       /\ bidResp' = Append(bidResp, bid)
  /\ UNCHANGED <<pc, cnvrReq, i, unit, sent, status, noBidID, bids, result, flexVars, passVars>>

\* ReconcileUnknownImp, were the unknown bid passed over like a bid without a price.
ReconcileUnknownImp_Continue ==
  /\ pc = "reconcile" /\ Len(bidResp) < MaxBids
  /\ \E bid \in ResponseBids :
       /\ bid.Price > 0
       /\ bid.ImpID \notin DOMAIN ImpMap(cnvrReq)
       /\ bidResp' = Append(bidResp, bid)
  /\ UNCHANGED <<pc, cnvrReq, i, unit, sent, status, noBidID, bids, result, flexVars, passVars>>

\* Lines 253-257.
ReconcileUnknownImp ==
  /\ pc = "reconcile" /\ Len(bidResp) < MaxBids
  /\ \E bid \in ResponseBids :
       /\ bid.Price > 0
       /\ bid.ImpID \notin DOMAIN ImpMap(cnvrReq)
       /\ bidResp' = Append(bidResp, bid)
  /\ Return(<<>>, "Unknown impression id")
  /\ UNCHANGED <<cnvrReq, i, unit, sent, status, noBidID, bids, flexVars, passVars>>

\* ReconcileUnknownAdUnit, were the bids built so far returned with the error.
ReconcileUnknownAdUnit_KeepBids ==
  /\ pc = "reconcile" /\ Len(bidResp) < MaxBids
  /\ \E bid \in ResponseBids :
       /\ bid.Price > 0
       /\ bid.ImpID \in DOMAIN ImpMap(cnvrReq)
       /\ LookupBidID(bid.ImpID, noBidID) = ""
       /\ bidResp' = Append(bidResp, bid)
  /\ Return(bids, "Unknown ad unit code")
  /\ UNCHANGED <<cnvrReq, i, unit, sent, status, noBidID, bids, flexVars, passVars>>

\* Lines 259-262.
ReconcileUnknownAdUnit ==
  /\ pc = "reconcile" /\ Len(bidResp) < MaxBids
  /\ \E bid \in ResponseBids :
       /\ bid.Price > 0
       /\ bid.ImpID \in DOMAIN ImpMap(cnvrReq)
       /\ LookupBidID(bid.ImpID, noBidID) = ""
       /\ bidResp' = Append(bidResp, bid)
  /\ Return(<<>>, "Unknown ad unit code")
  /\ UNCHANGED <<cnvrReq, i, unit, sent, status, noBidID, bids, flexVars, passVars>>

\* Lines 264-285.
ReconcileAppend ==
  /\ pc = "reconcile" /\ Len(bidResp) < MaxBids
  /\ \E bid \in ResponseBids :
       /\ bid.Price > 0
       /\ bid.ImpID \in DOMAIN ImpMap(cnvrReq)
       /\ LookupBidID(bid.ImpID, noBidID) # ""
       /\ bidResp' = Append(bidResp, bid)
       /\ bids' = Append(bids, MakePBSBid(cnvrReq.imp[ImpMap(cnvrReq)[bid.ImpID]],
                                          LookupBidID(bid.ImpID, noBidID), bid))
  /\ UNCHANGED <<pc, cnvrReq, i, unit, sent, status, noBidID, result, flexVars, passVars>>

\* Lines 289-293: every bid of the response has been read.
ReconcileDone ==
  /\ pc = "reconcile"
  /\ Return(bids, "nil")
  /\ UNCHANGED <<cnvrReq, i, unit, sent, status, noBidID, bidResp, bids, flexVars, passVars>>

\* ------------------------------------------------------ specifications
\* A call of the adapter, from the built request to the return.
Init == CallStart(PlainRequests) /\ FlexIdle /\ PassIdle

Next ==
  \/ MergeSkip(CoreUnits)
  \/ MergeDecodeError(CoreUnits)
  \/ MergeApply(CoreUnits)
  \/ MissingSiteId
  \/ Transmit
  \/ TransportError
  \/ Cancelled
  \/ Status204
  \/ ReadBodyError
  \/ StatusNot200
  \/ MalformedBody
  \/ ResponseDecoded
  \/ ReconcileSkip
  \/ ReconcileUnknownImp
  \/ ReconcileUnknownAdUnit
  \/ ReconcileAppend
  \/ ReconcileDone

Spec == Init /\ [][Next]_vars

\* The merge phase of a call, over every kind of request and parameter blob.
InitMerge == CallStart(RichRequests) /\ FlexIdle /\ PassIdle

NextMerge ==
  \/ MergeSkip(AllUnits)
  \/ MergeDecodeError(AllUnits)
  \/ MergeApply(AllUnits)
  \/ MissingSiteId
  \/ Transmit

SpecMerge == InitMerge /\ [][NextMerge]_vars

\* ------------------------------------------------ FlexBool.UnmarshalJSON
\* A call of FlexBool.UnmarshalJSON on any JSON value and any target flag.
InitFlex ==
  /\ fdata \in JSONValues
  /\ fprev \in BOOLEAN
  /\ fflag = fprev
  /\ ferr = FALSE
  /\ fdone = FALSE
  /\ CallIdle /\ cnvrReq = [site |-> [id |-> "", mobile |-> 0], imp |-> <<>>]
  /\ PassIdle

UnmarshalJSON ==
  /\ ~fdone
  /\ fflag' = FlexBoolUnmarshalJSON(fflag, fdata).flag
  /\ ferr' = FlexBoolUnmarshalJSON(fflag, fdata).err
  /\ fdone' = TRUE
  /\ UNCHANGED <<fdata, fprev, callVars, passVars>>

NextFlex == UnmarshalJSON

SpecFlex == InitFlex /\ [][NextFlex]_vars

\* ---------------------------------------------------------- repeated merge
\* The merge loop, lines 106-179, over a whole list of ad units: the request
\* as the loop leaves it, also when a decode error ends it early.
RECURSIVE MergeLoop(_, _)
MergeLoop(r, units) ==
  IF units = <<>> THEN r
  ELSE LET u == Head(units)
       IN IF u.Code \notin DOMAIN ImpMap(r) THEN MergeLoop(r, Tail(units))
          ELSE IF DecodeParams(u.Params).err THEN r
          ELSE MergeLoop(MergeUnit(r, u.Code, DecodeParams(u.Params).params), Tail(units))

PassBlobs ==
  {DefaultBlob, FullBlob, [DefaultBlob EXCEPT !.ok = FALSE],
   [DefaultBlob EXCEPT !.site_id = "site2"],
   [DefaultBlob EXCEPT !.tag_id = "tag2", !.bidfloor = 3],
   [DefaultBlob EXCEPT !.position = Raw(JInt(4))],
   [DefaultBlob EXCEPT !.secure = Raw(JTrue)], [DefaultBlob EXCEPT !.secure = Raw(JInt(0))]}

PassUnits == {[Code |-> c, Params |-> b] : c \in {ImpIDs[1], UnknownID}, b \in PassBlobs}

\* The same ad units merged into a one-impression request twice in a row.
InitPass ==
  /\ cnvrReq \in {r \in RichRequests : Len(r.imp) = 1}
  /\ adUnits \in UNION {[1..n -> PassUnits] : n \in 0..MaxUnits}
  /\ firstPass = cnvrReq
  /\ passes = 0
  /\ CallIdle
  /\ FlexIdle

MergePass ==
  /\ passes < 2
  /\ cnvrReq' = MergeLoop(cnvrReq, adUnits)
  /\ firstPass' = IF passes = 0 THEN cnvrReq' ELSE firstPass
  /\ passes' = passes + 1
  /\ UNCHANGED <<pc, i, unit, sent, status, noBidID, bidResp, bids, result, adUnits, flexVars>>

NextPass == MergePass

SpecPass == InitPass /\ [][NextPass]_vars

\* ============================================================== claims
\* The response decoded and the reconcile loop ran.
Reconciled == pc = "done" /\ status = 200 /\ result.err \notin {"ReadError", "ResponseDecodeError"}

\* The impression a bid names, when its ID is a key of the impression map.
ImpOf(bid) == cnvrReq.imp[ImpMap(cnvrReq)[bid.ImpID]]

\* C1 as stated: whenever a bid of the response carries an impression ID
\* that is not a key of the impression map, whatever its price, the call
\* returns the unknown-impression error and no bids.
C1_AnyUnknownImpFails ==
  (Reconciled /\ \E j \in 1..Len(bidResp) : bidResp[j].ImpID \notin DOMAIN ImpMap(cnvrReq))
    => result = [bids |-> <<>>, err |-> "Unknown impression id"]

\* C1 amended: whenever the loop reads a bid with a positive price whose
\* impression ID is not a key of the impression map, the call returns the
\* unknown-impression error and no bids, wherever the bid stands and
\* whatever was built before it; a bid without a positive price is passed
\* over before the lookup and never raises the error.
C1_PositiveUnknownImpFails ==
  /\ (Reconciled /\ \E j \in 1..Len(bidResp) :
         bidResp[j].Price > 0 /\ bidResp[j].ImpID \notin DOMAIN ImpMap(cnvrReq))
       => result = [bids |-> <<>>, err |-> "Unknown impression id"]
  /\ (Reconciled /\ result.err = "Unknown impression id")
       => /\ bidResp # <<>>
          /\ bidResp[Len(bidResp)].Price > 0
          /\ bidResp[Len(bidResp)].ImpID \notin DOMAIN ImpMap(cnvrReq)

C1_Witness ==
  /\ Reconciled /\ result.err = "Unknown impression id"
  /\ Len(bidResp) = 2 /\ Len(bids) = 1 /\ result.bids = <<>>

\* C6: a finished call has either no error and the whole bid collection
\* (empty after a 204, after a response without bids and after one without
\* a positive price), or an error and no bids; which errors can occur is
\* fixed by how far the call got, and bids built before an error are dropped.
C6_ErrorOrBids ==
  pc = "done" =>
    /\ result.err # "pending"
    /\ result.err = "nil" \/ result.bids = <<>>
    /\ ~sent => result.err \in {"DecodeError", "Missing site id"}
    /\ (sent /\ status = 0) => result.err \in {"TransportError", "Cancelled"}
    /\ status = 204 => result = [bids |-> <<>>, err |-> "nil"]
    /\ status \notin {0, 200, 204} => result.err \in {"HTTP status", "ReadError"}
    /\ status = 200 =>
         \/ result.err \in {"ReadError", "ResponseDecodeError", "Unknown impression id",
                            "Unknown ad unit code"}
         \/ /\ result = [bids |-> bids, err |-> "nil"]
            /\ (\A j \in 1..Len(bidResp) : bidResp[j].Price <= 0) => result.bids = <<>>

C6_Witness ==
  pc = "done" /\ result.err = "Unknown ad unit code" /\ bids # <<>> /\ result.bids = <<>>

IsPositive(bid) == bid.Price > 0

\* C7: a call that succeeds on a decoded response returns one record per
\* bid with a positive price, in the order of the response, and none for
\* the others; a record of a video impression is tagged "video", carries the
\* bid's markup as its redirect URL and the impression's video size; any
\* other record is tagged "banner" and carries the bid's NURL, markup and size.
C7_RecordsFollowBids ==
  (Reconciled /\ result.err = "nil") =>
    LET positive == SelectSeq(bidResp, IsPositive)
    IN /\ Len(result.bids) = Len(positive)
       /\ \A j \in 1..Len(positive) :
            LET rec == result.bids[j]
                bid == positive[j]
            IN /\ rec.AdUnitCode = bid.ImpID /\ rec.Price = bid.Price /\ rec.Creative_id = bid.CrID
               /\ bid.ImpID \in DOMAIN ImpMap(cnvrReq)
               /\ IF ImpOf(bid).video.set
                    THEN /\ rec.CreativeMediaType = "video"
                         /\ rec.NURL = bid.AdM
                         /\ rec.Width = ImpOf(bid).video.w /\ rec.Height = ImpOf(bid).video.h
                    ELSE /\ rec.CreativeMediaType = "banner"
                         /\ rec.NURL = bid.NURL /\ rec.Adm = bid.AdM
                         /\ rec.Width = bid.W /\ rec.Height = bid.H

C7_Witness ==
  /\ Reconciled /\ result.err = "nil"
  /\ Len(bidResp) = 2 /\ bidResp[1].Price = 0 /\ bidResp[2].Price = 2
  /\ Len(result.bids) = 1
  /\ result.bids[1].CreativeMediaType = "video"
  /\ result.bids[1].Width = 640 /\ bidResp[2].W = 300

\* A step of the merge loop: the loop takes the next ad unit (unit').
MergeIteration == pc = "merge" /\ unit' # NoUnit

\* The step writes no site ID: the unit is passed over, fails to decode or
\* its parameters have no site_id.
SuppliesNoSite(u) ==
  \/ u.Code \notin DOMAIN ImpMap(cnvrReq)
  \/ DecodeParams(u.Params).err
  \/ DecodeParams(u.Params).params.SiteID = ""

\* C4, on states: the request is on the wire only once the merge loop is
\* over and the site ID is not empty; a call whose loop ended with an empty
\* site ID has returned "Missing site id" and never transmitted.
C4_State ==
  /\ sent => (pc # "merge" /\ cnvrReq.site.id # "")
  /\ (pc # "merge" /\ result.err # "DecodeError" /\ cnvrReq.site.id = "")
       => (pc = "done" /\ result = [bids |-> <<>>, err |-> "Missing site id"]
           /\ ~sent /\ status = 0)

\* C4, on steps: a placement that supplies no site ID leaves the site ID as
\* it was, and nothing is merged after the transmission.
C4_Step ==
  /\ (MergeIteration /\ SuppliesNoSite(unit')) => cnvrReq'.site.id = cnvrReq.site.id
  /\ sent => (sent' /\ cnvrReq' = cnvrReq)

\* C4: the request is transmitted only after every placement has been
\* merged and with a site ID; when the base site ID is empty and no merged
\* placement supplies one, the call fails with "Missing site id" and never
\* transmits.
C4_TransmitNeedsSiteId == []C4_State /\ [][C4_Step]_vars

C4_Witness ==
  /\ pc = "done" /\ result.err = "Missing site id" /\ ~sent
  /\ i = 2 /\ cnvrReq.imp[1].displaymanager = "prebid-s2s"

\* C5 as stated: whenever the parameter blob of an ad unit of the list
\* fails to decode, whether or not its code names an impression, the call
\* returns a decode error and no bids before any network I/O.
C5_AnyBadBlobAborts ==
  [][(MergeIteration /\ DecodeParams(unit'.Params).err)
       => (pc' = "done" /\ result' = [bids |-> <<>>, err |-> "DecodeError"] /\ ~sent')]_vars

\* C5 amended: whenever the parameter blob of an ad unit whose code names an
\* impression of the request fails to decode, the call returns a decode
\* error and no bids before any network I/O; the blob of an ad unit without
\* an impression is never decoded and the loop goes on.
C5_MatchedBadBlobAborts ==
  /\ [][(MergeIteration /\ DecodeParams(unit'.Params).err)
          => IF unit'.Code \in DOMAIN ImpMap(cnvrReq)
               THEN /\ pc' = "done" /\ result' = [bids |-> <<>>, err |-> "DecodeError"]
                    /\ ~sent' /\ status' = 0 /\ cnvrReq' = cnvrReq
               ELSE pc' = "merge" /\ result' = result /\ cnvrReq' = cnvrReq]_vars
  /\ [](result.err = "DecodeError" => (pc = "done" /\ ~sent /\ status = 0 /\ result.bids = <<>>))

C5_Witness ==
  /\ pc = "done" /\ result.err = "DecodeError" /\ ~sent
  /\ i = 1 /\ unit.Params.ok /\ unit.Params.secure = Raw(JString)
  /\ unit.Code \in DOMAIN ImpMap(cnvrReq)

\* A step of the merge loop that merges unit' into its impression.
MergeOfMatched ==
  /\ MergeIteration
  /\ unit'.Code \in DOMAIN ImpMap(cnvrReq)
  /\ ~DecodeParams(unit'.Params).err

Truthy(secure) == secure.set /\ secure.v # 0

C3_Step ==
  /\ \A j \in 1..Len(cnvrReq.imp) :
       Truthy(cnvrReq.imp[j].secure)
         => (Len(cnvrReq'.imp) = Len(cnvrReq.imp) /\ cnvrReq'.imp[j].secure = cnvrReq.imp[j].secure)
  /\ MergeOfMatched =>
       LET m == ImpMap(cnvrReq)[unit'.Code]
           old == cnvrReq.imp[m].secure
           new == cnvrReq'.imp[m].secure
           supplied == DecodeParams(unit'.Params).params.Secure
       IN /\ (~Truthy(old) /\ supplied.set /\ supplied.v) => new = IntPtr(1)
          /\ (~Truthy(old) /\ supplied.set /\ ~supplied.v) => new = IntPtr(0)
          /\ ~supplied.set => new = old

\* C3: no step changes a secure flag that is set to a non-zero value; a
\* merged placement that supplies secure sets a flag that is absent or 0 to
\* 1 for true and to 0 for false, and one that supplies none leaves the flag.
C3_SecureFlagRule == [][C3_Step]_vars

C3_Witness ==
  /\ pc = "merge" /\ i = 2
  /\ unit.Code \in DOMAIN ImpMap(cnvrReq)
  /\ unit.Params.secure \in {Raw(JFalse), Raw(JInt(0))}
  /\ cnvrReq.imp[ImpMap(cnvrReq)[unit.Code]].secure = IntPtr(1)

\* C8: a placement whose code matches no impression is passed over without
\* an error and changes nothing: the impressions, their number, the site ID
\* and the mobile indicator stay as they were, whatever its parameters.
C8_UnmatchedChangesNothing ==
  [][(MergeIteration /\ unit'.Code \notin DOMAIN ImpMap(cnvrReq))
       => /\ pc' = "merge" /\ result' = result
          /\ Len(cnvrReq'.imp) = Len(cnvrReq.imp)
          /\ \A j \in 1..Len(cnvrReq.imp) : cnvrReq'.imp[j] = cnvrReq.imp[j]
          /\ cnvrReq'.site.id = cnvrReq.site.id
          /\ cnvrReq'.site.mobile = cnvrReq.site.mobile]_vars

C8_Witness ==
  /\ pc = "merge" /\ i >= 1
  /\ unit.Code \notin DOMAIN ImpMap(cnvrReq)
  /\ unit.Params = FullBlob
  /\ cnvrReq.site.id # FullBlob.site_id

\* C10 as stated: a merged placement that supplies no position leaves the
\* position of the impression's banner or video sub-object as it was; one
\* that supplies a position writes it to the banner sub-object of a banner
\* and to the video sub-object of a video.
C10_AbsentPositionKept ==
  [][MergeOfMatched =>
       LET m == ImpMap(cnvrReq)[unit'.Code]
           old == cnvrReq.imp[m]
           new == cnvrReq'.imp[m]
           position == DecodeParams(unit'.Params).params.Position
       IN IF position.set
            THEN /\ old.banner.set => new.banner.pos = IntPtr(position.v)
                 /\ (~old.banner.set /\ old.video.set) => new.video.pos = IntPtr(position.v)
            ELSE new.banner.pos = old.banner.pos /\ new.video.pos = old.video.pos]_vars

\* C9: after the same ad units are merged a second time the site ID, the
\* mobile indicator and, for every impression, the display-manager tag, the
\* floor price, the placement tag, the position, the video lists, the
\* maximal duration and the secure flag are what they were after the first
\* pass.
C9_SecondPassChangesNothing ==
  passes = 2 =>
    /\ cnvrReq.site.id = firstPass.site.id
    /\ cnvrReq.site.mobile = firstPass.site.mobile
    /\ Len(cnvrReq.imp) = Len(firstPass.imp)
    /\ \A j \in 1..Len(cnvrReq.imp) :
         LET a == firstPass.imp[j]
             b == cnvrReq.imp[j]
         IN /\ b.displaymanager = a.displaymanager
            /\ b.bidfloor = a.bidfloor
            /\ b.tagid = a.tagid
            /\ b.banner.pos = a.banner.pos /\ b.video.pos = a.video.pos
            /\ b.video.api = a.video.api /\ b.video.protocols = a.video.protocols
            /\ b.video.mimes = a.video.mimes
            /\ b.video.maxduration = a.video.maxduration
            /\ b.secure = a.secure

C9_Witness ==
  /\ passes = 2 /\ Len(adUnits) = 2
  /\ adUnits[1].Code = ImpIDs[1] /\ adUnits[1].Params = FullBlob
  /\ adUnits[2].Code = ImpIDs[1] /\ adUnits[2].Params.secure = Raw(JTrue)
  /\ cnvrReq.imp[1].video.set /\ cnvrReq.imp[1].video.api = FullBlob.api
  /\ cnvrReq.imp[1].secure = IntPtr(1)

\* C2 as stated: true, false and the integers of an int8 decode without an
\* error to true, false and to "is not zero"; every other JSON value, among
\* them a string and null, gives an error and leaves the flag as it was.
C2_NeverDefaults ==
  fdone =>
    IF fdata.kind \in {"true", "false"} THEN ~ferr /\ fflag = (fdata.kind = "true")
    ELSE IF fdata.kind = "int" /\ fdata.n >= 0 - Int8Max - 1 /\ fdata.n <= Int8Max
      THEN ~ferr /\ fflag = (fdata.n # 0)
    ELSE ferr /\ fflag = fprev

====
